---- MODULE Spec2Model ----
(***************************************************************************)
(* A model of error_codes_generator.py: the script that turns the error    *)
(* domains of OS_Error.json into the header OS_Error.test.h and the source *)
(* stub OS_Error.c.                                                        *)
(*                                                                         *)
(* A text is a sequence of pieces (strings); the text it stands for is the *)
(* concatenation of the pieces.  A file is a record of its state and of    *)
(* the texts written to it, one text per call of write().  A JSON object   *)
(* is a record whose DOMAIN is the set of keys it has; a JSON string that  *)
(* is parsed (an offset) is a sequence of one-character strings.           *)
(***************************************************************************)
EXTENDS Integers, Sequences, FiniteSets, TLC

VARIABLES
    json_file,              \* the 'OS_Error_t' list of OS_Error.json
    os_error_codes,         \* the loaded schema (line 3)
    os_error_header_file,   \* OS_Error.test.h: [state, writes]
    os_error_source_file,   \* OS_Error.c: [state, writes]
    dom,                    \* number of domains the outer loop has taken
    index,                  \* enumerate()'s index in the inner loop
    pc,                     \* the statement to execute next
    error,                  \* the exception that ended the run, or "none"
    run,                    \* 1 in the first run of the script, 2 in the second
    first                   \* how the first run ended, once it has

vars == <<json_file, os_error_codes, os_error_header_file, os_error_source_file,
          dom, index, pc, error, run, first>>

-----------------------------------------------------------------------------
(* Bounds of the inputs *)

MaxDomains == 2

MaxMembers == 2

-----------------------------------------------------------------------------
(* Python's int() and str() *)

Digits == <<"0", "1", "2", "3", "4", "5", "6", "7", "8", "9">>

IsDigit(c) == \E k \in 1..10 : Digits[k] = c

DigitValue(c) == (CHOOSE k \in 1..10 : Digits[k] = c) - 1

IsSpace(c) == c \in {" ", "\t", "\n", "\r"}

RECURSIVE LStrip(_)
LStrip(s) == IF s # <<>> /\ IsSpace(Head(s)) THEN LStrip(Tail(s)) ELSE s

RECURSIVE RStrip(_)
RStrip(s) ==
    IF s # <<>> /\ IsSpace(s[Len(s)]) THEN RStrip(SubSeq(s, 1, Len(s) - 1)) ELSE s

Strip(s) == RStrip(LStrip(s))

HasSign(s) == s # <<>> /\ Head(s) \in {"+", "-"}

Unsigned(s) == IF HasSign(s) THEN Tail(s) ELSE s

\* The digits of an integer literal: at least one digit, and single
\* underscores only between two digits.
IsDigitString(s) ==
    /\ s # <<>>
    /\ \A k \in 1..Len(s) :
          \/ IsDigit(s[k])
          \/ /\ s[k] = "_"
             /\ 1 < k
             /\ k < Len(s)
             /\ IsDigit(s[k - 1])
             /\ IsDigit(s[k + 1])

RECURSIVE DigitStringValue(_, _)
DigitStringValue(s, acc) ==
    IF s = <<>> THEN acc
    ELSE IF Head(s) = "_" THEN DigitStringValue(Tail(s), acc)
    ELSE DigitStringValue(Tail(s), 10 * acc + DigitValue(Head(s)))

\* A bug: a sign with no digit after it is taken for zero
IntRaisesButForSign(x) ==
    /\ x.type = "str"
    /\ ~IsDigitString(Unsigned(Strip(x.value)))
    /\ ~(HasSign(Strip(x.value)) /\ Unsigned(Strip(x.value)) = <<>>)

\* int(x) raises ValueError
IntRaises(x) ==
    /\ x.type = "str"
    /\ ~IsDigitString(Unsigned(Strip(x.value)))

\* int(x), where it does not raise
int(x) ==
    IF x.type = "int" THEN x.value
    ELSE LET s == Strip(x.value)
             n == DigitStringValue(Unsigned(s), 0)
         IN  IF HasSign(s) /\ Head(s) = "-" THEN 0 - n ELSE n

RECURSIVE StrNat(_)
StrNat(n) == IF n < 10 THEN Digits[n + 1] ELSE StrNat(n \div 10) \o Digits[(n % 10) + 1]

\* str(n) of an integer
str(n) == IF n < 0 THEN "-" \o StrNat(0 - n) ELSE StrNat(n)

-----------------------------------------------------------------------------
(* The inputs: the schemas OS_Error.json may hold *)

IntOffset(n) == [type |-> "int", value |-> n]

StrOffset(s) == [type |-> "str", value |-> s]

\* Offsets int() accepts: an integer, a decimal string, a decimal string with
\* a sign and white space around it.
GoodOffsets == { IntOffset(-1), StrOffset(<<"1", "0">>), StrOffset(<<" ", "-", "2", " ">>) }

\* Offsets int() rejects.
BadOffsets == { StrOffset(<<"1", "x">>), StrOffset(<<"-">>) }

MemberA == [name |-> "A", description |-> "d1"]

MemberB == [name |-> "B", description |-> "d2"]

\* The well-formed member list of length n: B, A, B, ... (not sorted, and
\* with a repeated name from length 3 on).
GoodMembers(n) == [k \in 1..n |-> IF k % 2 = 1 THEN MemberB ELSE MemberA]

GoodMemberLists == { GoodMembers(n) : n \in 0..MaxMembers }

\* A well-formed list with one member that lacks its name or its description.
DefectMemberLists ==
    { [j \in DOMAIN m |-> IF j = k THEN r ELSE m[j]] :
          m \in GoodMemberLists,
          k \in 1..MaxMembers,
          r \in { [description |-> "d1"], [name |-> "A"] } }

\* The well-formed domains: an integer offset under the description "D", a
\* decimal string under "E".
GoodDomains ==
    { [description |-> h[1], offset |-> h[2], members |-> m] :
          h \in { <<"D", IntOffset(-1)>>, <<"E", StrOffset(<<"1", "0">>)>> },
          m \in GoodMemberLists }

\* A JSON object with the keys of r but those of ks.
Without(r, ks) == [f \in DOMAIN r \ ks |-> r[f]]

\* Every domain: each of the three keys present or absent, any offset, any
\* member list.
AnyDomains ==
    GoodDomains \cup
    { Without([description |-> "D", offset |-> o, members |-> m], ks) :
          o \in GoodOffsets \cup BadOffsets,
          m \in GoodMemberLists \cup DefectMemberLists,
          ks \in SUBSET {"description", "offset", "members"} }

\* The sequences of exactly n well-formed domains
GoodSchemas(n) == [1..n -> GoodDomains]

\* A schema of up to MaxDomains domains, of which at most one, at any place,
\* is not a well-formed one.
IsSchema(schema) ==
    \/ schema = <<>>
    \/ \E n \in 0..(MaxDomains - 1) :
          \E m \in 0..(MaxDomains - 1 - n) :
             \E before \in GoodSchemas(n), x \in AnyDomains, after \in GoodSchemas(m) :
                schema = before \o <<x>> \o after

-----------------------------------------------------------------------------
(* The fixed texts *)

HeaderPreamble ==
    << "\n",
       "/*\n",
       " * OS return codes\n",
       " *\n",
       " * Copyright (C) 2019-2021, HENSOLDT Cyber GmbH\n",
       " * SPDX-License-Identifier: BSD-3-Clause\n",
       " */\n",
       "\n",
       "#pragma once\n",
       "\n",
       "#ifdef __cplusplus\n",
       "extern \"C\" {\n",
       "#endif\n",
       "\n",
       "/**\n",
       " * @brief   OS error codes\n",
       " *\n",
       " * @ingroup OS_error\n",
       "*/\n",
       "typedef enum\n",
       "{" >>

SourcePreamble ==
    << "\n",
       "#include \"OS_Error.h\"\n",
       "\n",
       "const char*\n",
       "OS_Error_toString(\n",
       "    OS_Error_t err)\n",
       "{\n" >>

BannerTop ==
    << "\n",
       "\n",
       "    //--------------------------------------------------------------------------\n" >>

BannerDescription(error_domain) == << "    // ", error_domain.description >>

BannerBottom ==
    << "\n",
       "    //--------------------------------------------------------------------------\n" >>

\* A bug: the stub is given a body
SourceCloseWithReturn == << "    return \"\";\n", "}" >>

SourceClose == << "}" >>

\* A bug: the C-linkage guard is not closed
HeaderFooterUnguarded ==
    << "\n",
       "}\n",
       "OS_Error_t;\n",
       "\n",
       "#ifdef __cplusplus\n",
       "#endif\n" >>

HeaderFooter ==
    << "\n",
       "}\n",
       "OS_Error_t;\n",
       "\n",
       "#ifdef __cplusplus\n",
       "}\n",
       "#endif\n" >>

\* A bug: the values count upward
error_domain_member_value_upward(error_domain, i) == int(error_domain.offset) + i

\* line 53
error_domain_member_value(error_domain, i) == int(error_domain.offset) - i

\* lines 55-59
MemberLine(error_domain_member, value) ==
    << "    ", error_domain_member.name, " = ", str(value), ",",
       " ///< ", error_domain_member.description, "\n" >>

-----------------------------------------------------------------------------
(* Files and the with statement *)

\* A file that no run has opened yet
Unopened == [state |-> "unopened", writes |-> <<>>]

\* A bug: open(path, "a"), the file is opened and keeps what it holds
OpenForAppend(file) == [file EXCEPT !.state = "open"]

\* open(path, "w"): the file is opened and truncated
Open(file) == [file EXCEPT !.state = "open", !.writes = <<>>]

\* file.write(text)
Write(file, text) == [file EXCEPT !.writes = Append(@, text)]

\* A bug: the file is opened without a with block, and never closed
ExitLeavesOpen(file) == file

\* The end of a with block, reached normally or by an exception: the file
\* the block has opened is closed.
Exit(file) == IF file.state = "open" THEN [file EXCEPT !.state = "closed"] ELSE file

\* A bug: the exception is caught and dropped, and the run ends as if well
RaiseSwallowed(exc) ==
    /\ error' = exc
    /\ pc' = "done"
    /\ os_error_source_file' = Exit(os_error_source_file)
    /\ os_error_header_file' = Exit(os_error_header_file)
    /\ UNCHANGED <<json_file, os_error_codes, dom, index, run, first>>

\* An exception: it leaves every with block the run is in, and ends the run.
Raise(exc) ==
    /\ error' = exc
    /\ pc' = "failed"
    /\ os_error_source_file' = Exit(os_error_source_file)
    /\ os_error_header_file' = Exit(os_error_header_file)
    /\ UNCHANGED <<json_file, os_error_codes, dom, index, run, first>>

-----------------------------------------------------------------------------
(* The run *)

\* How a run has ended: what the two files hold, and where and how it stopped.
Ending ==
    [header |-> os_error_header_file.writes,
     source |-> os_error_source_file.writes,
     pc     |-> pc,
     error  |-> error,
     dom    |-> dom,
     index  |-> index]

NoRun ==
    [header |-> <<>>, source |-> <<>>, pc |-> "load", error |-> "none",
     dom |-> 0, index |-> 0]

Init ==
    /\ IsSchema(json_file)
    /\ os_error_codes = <<>>
    /\ os_error_header_file = Unopened
    /\ os_error_source_file = Unopened
    /\ dom = 0
    /\ index = 0
    /\ pc = "load"
    /\ error = "none"
    /\ run = 1
    /\ first = NoRun

error_domain == os_error_codes[dom]

\* A bug: the members are taken from the last to the first
error_domain_member_reversed ==
    error_domain.members[Len(error_domain.members) - index]

error_domain_member == error_domain.members[index + 1]

\* line 3
Load ==
    /\ pc = "load"
    /\ os_error_codes' = json_file
    /\ pc' = "open_header"
    /\ UNCHANGED <<json_file, os_error_header_file, os_error_source_file, dom,
                   index, error, run, first>>

\* line 5
OpenHeader ==
    /\ pc = "open_header"
    /\ \/ /\ os_error_header_file' = Open(os_error_header_file)
          /\ pc' = "header_preamble"
          /\ UNCHANGED <<json_file, os_error_codes, os_error_source_file, dom,
                         index, error, run, first>>
       \/ Raise("OSError")

\* lines 6-27
WriteHeaderPreamble ==
    /\ pc = "header_preamble"
    /\ \/ /\ os_error_header_file' = Write(os_error_header_file, HeaderPreamble)
          /\ pc' = "open_source"
          /\ UNCHANGED <<json_file, os_error_codes, os_error_source_file, dom,
                         index, error, run, first>>
       \/ Raise("OSError")

\* line 29
OpenSource ==
    /\ pc = "open_source"
    /\ \/ /\ os_error_source_file' = Open(os_error_source_file)
          /\ pc' = "source_preamble"
          /\ UNCHANGED <<json_file, os_error_codes, os_error_header_file, dom,
                         index, error, run, first>>
       \/ Raise("OSError")

\* lines 30-38
WriteSourcePreamble ==
    /\ pc = "source_preamble"
    /\ \/ /\ os_error_source_file' = Write(os_error_source_file, SourcePreamble)
          /\ pc' = "for_domain"
          /\ UNCHANGED <<json_file, os_error_codes, os_error_header_file, dom,
                         index, error, run, first>>
       \/ Raise("OSError")

\* line 40: the outer loop takes the next domain
NextDomain ==
    /\ pc = "for_domain"
    /\ dom < Len(os_error_codes)
    /\ dom' = dom + 1
    /\ pc' = "banner_top"
    /\ UNCHANGED <<json_file, os_error_codes, os_error_header_file,
                   os_error_source_file, index, error, run, first>>

\* lines 41-45
WriteBannerTop ==
    /\ pc = "banner_top"
    /\ \/ /\ os_error_header_file' = Write(os_error_header_file, BannerTop)
          /\ pc' = "banner_description"
          /\ UNCHANGED <<json_file, os_error_codes, os_error_source_file, dom,
                         index, error, run, first>>
       \/ Raise("OSError")

\* A bug: error_domain.get('description', ''), a missing description is
\* written as an empty one
WriteBannerDescriptionOrNone ==
    /\ pc = "banner_description"
    /\ \/ /\ os_error_header_file' =
                Write(os_error_header_file,
                      IF "description" \in DOMAIN error_domain
                      THEN BannerDescription(error_domain)
                      ELSE << "    // ", "" >>)
          /\ pc' = "banner_bottom"
          /\ UNCHANGED <<json_file, os_error_codes, os_error_source_file,
                         dom, index, error, run, first>>
       \/ Raise("OSError")

\* line 46
WriteBannerDescription ==
    /\ pc = "banner_description"
    /\ IF "description" \notin DOMAIN error_domain
       THEN Raise("KeyError")
       ELSE \/ /\ os_error_header_file' =
                    Write(os_error_header_file, BannerDescription(error_domain))
               /\ pc' = "banner_bottom"
               /\ UNCHANGED <<json_file, os_error_codes, os_error_source_file,
                              dom, index, error, run, first>>
            \/ Raise("OSError")

\* lines 47-50
WriteBannerBottom ==
    /\ pc = "banner_bottom"
    /\ \/ /\ os_error_header_file' = Write(os_error_header_file, BannerBottom)
          /\ pc' = "enumerate_members"
          /\ UNCHANGED <<json_file, os_error_codes, os_error_source_file, dom,
                         index, error, run, first>>
       \/ Raise("OSError")

\* line 51: enumerate(error_domain['members'])
EnumerateMembers ==
    /\ pc = "enumerate_members"
    /\ IF "members" \notin DOMAIN error_domain
       THEN Raise("KeyError")
       ELSE /\ index' = 0
            /\ pc' = "for_member"
            /\ UNCHANGED <<json_file, os_error_codes, os_error_header_file,
                           os_error_source_file, dom, error, run, first>>

\* A bug: each member also gets a case of the lookup function in the source
WriteMemberAndCase ==
    /\ pc = "for_member"
    /\ index < Len(error_domain.members)
    /\ IF "offset" \notin DOMAIN error_domain THEN Raise("KeyError")
       ELSE IF IntRaises(error_domain.offset) THEN Raise("ValueError")
       ELSE IF "name" \notin DOMAIN error_domain_member THEN Raise("KeyError")
       ELSE IF "description" \notin DOMAIN error_domain_member THEN Raise("KeyError")
       ELSE \/ /\ os_error_header_file' =
                    Write(os_error_header_file,
                          MemberLine(error_domain_member,
                                     error_domain_member_value(error_domain, index)))
               /\ os_error_source_file' =
                    Write(os_error_source_file,
                          << "    case ", error_domain_member.name, ": return \"",
                             error_domain_member.name, "\";\n" >>)
               /\ index' = index + 1
               /\ UNCHANGED <<json_file, os_error_codes, dom, pc, error, run, first>>
            \/ Raise("OSError")

\* lines 51-59: the inner loop takes the next member and writes its line
WriteMember ==
    /\ pc = "for_member"
    /\ index < Len(error_domain.members)
    /\ IF "offset" \notin DOMAIN error_domain THEN Raise("KeyError")
       ELSE IF IntRaises(error_domain.offset) THEN Raise("ValueError")
       ELSE IF "name" \notin DOMAIN error_domain_member THEN Raise("KeyError")
       ELSE IF "description" \notin DOMAIN error_domain_member THEN Raise("KeyError")
       ELSE \/ /\ os_error_header_file' =
                    Write(os_error_header_file,
                          MemberLine(error_domain_member,
                                     error_domain_member_value(error_domain, index)))
               /\ index' = index + 1
               /\ UNCHANGED <<json_file, os_error_codes, os_error_source_file,
                              dom, pc, error, run, first>>
            \/ Raise("OSError")

\* line 51: the inner loop is exhausted
EndMembers ==
    /\ pc = "for_member"
    /\ index = Len(error_domain.members)
    /\ pc' = "for_domain"
    /\ UNCHANGED <<json_file, os_error_codes, os_error_header_file,
                   os_error_source_file, dom, index, error, run, first>>

\* line 40: the outer loop is exhausted
EndDomains ==
    /\ pc = "for_domain"
    /\ dom = Len(os_error_codes)
    /\ pc' = "source_close"
    /\ UNCHANGED <<json_file, os_error_codes, os_error_header_file,
                   os_error_source_file, dom, index, error, run, first>>

\* line 61
WriteSourceClose ==
    /\ pc = "source_close"
    /\ \/ /\ os_error_source_file' = Write(os_error_source_file, SourceClose)
          /\ pc' = "exit_source"
          /\ UNCHANGED <<json_file, os_error_codes, os_error_header_file, dom,
                         index, error, run, first>>
       \/ Raise("OSError")

\* the end of the with block of line 29
ExitSource ==
    /\ pc = "exit_source"
    /\ os_error_source_file' = Exit(os_error_source_file)
    /\ pc' = "header_footer"
    /\ UNCHANGED <<json_file, os_error_codes, os_error_header_file, dom, index,
                   error, run, first>>

\* lines 63-71
WriteHeaderFooter ==
    /\ pc = "header_footer"
    /\ \/ /\ os_error_header_file' = Write(os_error_header_file, HeaderFooter)
          /\ pc' = "exit_header"
          /\ UNCHANGED <<json_file, os_error_codes, os_error_source_file, dom,
                         index, error, run, first>>
       \/ Raise("OSError")

\* the end of the with block of line 5, and of the script
ExitHeader ==
    /\ pc = "exit_header"
    /\ os_error_header_file' = Exit(os_error_header_file)
    /\ pc' = "done"
    /\ UNCHANGED <<json_file, os_error_codes, os_error_source_file, dom, index,
                   error, run, first>>

Next ==
    \/ Load
    \/ OpenHeader
    \/ WriteHeaderPreamble
    \/ OpenSource
    \/ WriteSourcePreamble
    \/ NextDomain
    \/ WriteBannerTop
    \/ WriteBannerDescription
    \/ WriteBannerBottom
    \/ EnumerateMembers
    \/ WriteMember
    \/ EndMembers
    \/ EndDomains
    \/ WriteSourceClose
    \/ ExitSource
    \/ WriteHeaderFooter
    \/ ExitHeader

Spec == Init /\ [][Next]_vars

\* The script is run a second time on the same OS_Error.json, after a first
\* run that met no I/O failure.  The files are left as the first run left
\* them; everything else starts afresh.
Rerun ==
    /\ run = 1
    /\ pc \in {"done", "failed"}
    /\ error # "OSError"
    /\ run' = 2
    /\ first' = Ending
    /\ os_error_codes' = <<>>
    /\ dom' = 0
    /\ index' = 0
    /\ pc' = "load"
    /\ error' = "none"
    /\ UNCHANGED <<json_file, os_error_header_file, os_error_source_file>>

NextTwoRuns == Next \/ Rerun

SpecTwoRuns == Init /\ [][NextTwoRuns]_vars

-----------------------------------------------------------------------------
(* What the claims speak of *)

Header == os_error_header_file.writes

Source == os_error_source_file.writes

Ended == pc \in {"done", "failed"}

\* A member's line: "    <name> = <value>, ///< <description>\n"
IsMemberLine(w) == Len(w) = 8 /\ w[1] = "    " /\ w[3] = " = " /\ w[5] = ","

\* The line of a banner that carries the domain's description
IsBannerLine(w) == Len(w) = 2 /\ w[1] = "    // "

\* The top of a banner: two empty lines and a rule
IsBannerTop(w) ==
    /\ Len(w) = 3
    /\ w[3] = "    //--------------------------------------------------------------------------\n"

MemberLines == SelectSeq(Header, IsMemberLine)

BannerLines == SelectSeq(Header, IsBannerLine)

BannerTops == SelectSeq(Header, IsBannerTop)

Lacks(object, key) == key \notin DOMAIN object

MembersOf(domain) == IF Lacks(domain, "members") THEN <<>> ELSE domain.members

\* The members of the first n domains of a schema, in input order, each as
\* the place it has: its domain and its zero-based position in the domain.
RECURSIVE MemberPlaces(_, _)
MemberPlaces(schema, n) ==
    IF n = 0 THEN <<>>
    ELSE MemberPlaces(schema, n - 1) \o
         [i \in 1..Len(MembersOf(schema[n])) |-> [domain |-> n, index |-> i - 1]]

Places == MemberPlaces(json_file, Len(json_file))

\* The integer an offset of the inputs stands for, read off by hand.
OffsetInteger(offset) ==
    CASE offset.type = "int" -> offset.value
      [] offset.type = "str" /\ offset.value = <<"1", "0">> -> 10
      [] offset.type = "str" /\ offset.value = <<" ", "-", "2", " ">> -> -2

\* The offsets of the inputs that are no integer, read off by hand.
NotAnInteger(offset) ==
    offset.type = "str" /\ offset.value \in { <<"1", "x">>, <<"-">> }

-----------------------------------------------------------------------------
(* C1: the value on a member's line is its domain's offset minus the       *)
(* member's zero-based position in the domain, whether the offset is an    *)
(* integer or a decimal string.                                            *)

\* C1: every member line written so far carries the decimal form of its
\* domain's offset minus the member's zero-based position.
C1_ValueFormula ==
    /\ Len(MemberLines) <= Len(Places)
    /\ \A k \in 1..Len(MemberLines) :
          LET place == Places[k]
              domain == json_file[place.domain]
          IN  /\ ~Lacks(domain, "offset")
              /\ ~NotAnInteger(domain.offset)
              /\ MemberLines[k][4] = ToString(OffsetInteger(domain.offset) - place.index)

\* A run has ended well on two domains of two members each, the first with
\* an integer offset and the second with a decimal string.
C1_Witness ==
    /\ pc = "done"
    /\ Len(json_file) = 2
    /\ Len(json_file[1].members) = 2
    /\ Len(json_file[2].members) = 2
    /\ json_file[1].offset.type = "int"
    /\ json_file[2].offset.type = "str"
    /\ Len(MemberLines) = 4

-----------------------------------------------------------------------------
(* C2: after a run that ends well, the header holds, in input order, each  *)
(* domain's banner followed by the lines of that domain's members in input *)
(* order: the names read top to bottom are the concatenation of the        *)
(* domains' name sequences, nothing sorted, dropped, repeated or moved.    *)

\* What a domain contributes, in order: its banner, then its members' names.
RECURSIVE ExpectedOrder(_, _)
ExpectedOrder(schema, n) ==
    IF n = 0 THEN <<>>
    ELSE ExpectedOrder(schema, n - 1) \o
         << <<"banner", schema[n].description>> >> \o
         [i \in 1..Len(schema[n].members) |-> <<"member", schema[n].members[i].name>>]

IsBannerOrMemberLine(w) == IsBannerLine(w) \/ IsMemberLine(w)

EmittedOrder ==
    LET lines == SelectSeq(Header, IsBannerOrMemberLine)
    IN  [k \in 1..Len(lines) |->
            IF IsMemberLine(lines[k]) THEN <<"member", lines[k][2]>>
            ELSE <<"banner", lines[k][2]>>]

\* C2: after a run that ends well, the banners and member names of the
\* header are those of the schema, in input order, and nothing else is there.
C2_OrderPreserved ==
    pc = "done" =>
        /\ EmittedOrder = ExpectedOrder(json_file, Len(json_file))
        /\ [k \in 1..Len(MemberLines) |-> MemberLines[k][2]] =
               [k \in 1..Len(Places) |->
                   json_file[Places[k].domain].members[Places[k].index + 1].name]
        /\ Len(Header) = 2 + 3 * Len(json_file) + Len(Places)

\* A run has ended well on two domains of two members each, whose names are
\* not in alphabetical order and recur in the second domain.
C2_Witness ==
    /\ pc = "done"
    /\ Len(json_file) = 2
    /\ Len(json_file[1].members) = 2
    /\ Len(json_file[2].members) = 2
    /\ json_file[1].description # json_file[2].description
    /\ [k \in 1..Len(MemberLines) |-> MemberLines[k][2]] = <<"B", "A", "B", "A">>

-----------------------------------------------------------------------------
(* C3: a schema with a domain that lacks a required key, or a member that  *)
(* lacks its name, makes the run fail at the first such place in iteration *)
(* order, with no line for that member or any later member or domain.      *)

\* The claim's violations of a domain
LacksRequired(domain) ==
    \/ Lacks(domain, "description")
    \/ Lacks(domain, "offset")
    \/ Lacks(domain, "members")
    \/ \E i \in 1..Len(MembersOf(domain)) : Lacks(domain.members[i], "name")

\* The same, but the offset is required only of a domain that has a member.
LacksRequiredWhereRead(domain) ==
    \/ Lacks(domain, "description")
    \/ Lacks(domain, "members")
    \/ Lacks(domain, "offset") /\ Len(MembersOf(domain)) >= 1
    \/ \E i \in 1..Len(MembersOf(domain)) : Lacks(domain.members[i], "name")

\* The member lines a violating domain may still get: those of the members
\* before the first one that cannot be written.
LinesBeforeViolation(domain) ==
    IF Lacks(domain, "description") \/ Lacks(domain, "members") \/ Lacks(domain, "offset")
    THEN 0
    ELSE (CHOOSE i \in 1..Len(domain.members) :
              /\ Lacks(domain.members[i], "name")
              /\ \A j \in 1..(i - 1) : ~Lacks(domain.members[j], "name")) - 1

\* The run on a schema with violating domains never ends well, ends with an
\* error if it ends, and writes nothing at or after the first violation.
AbortsAtFirst(violating) ==
    violating # {} =>
        LET fd == CHOOSE d \in violating : \A e \in violating : d <= e
        IN  /\ pc # "done"
            /\ pc = "failed" => error # "none"
            /\ Len(MemberLines) <=
                   Len(MemberPlaces(json_file, fd - 1)) + LinesBeforeViolation(json_file[fd])
            /\ Len(BannerTops) <= fd
            /\ Len(BannerLines) <= IF Lacks(json_file[fd], "description") THEN fd - 1 ELSE fd

\* C3 as it stands: a domain that lacks description, offset or members, or a
\* member that lacks its name, makes the run fail at the first such place,
\* also when the domain has no member.
C3_AnyMissingKeyAborts ==
    AbortsAtFirst({ d \in 1..Len(json_file) : LacksRequired(json_file[d]) })

\* C3 as amended: a domain that lacks description or members, a domain with
\* at least one member that lacks offset, or a member that lacks its name,
\* makes the run fail at the first such place, with no line for that member
\* or any later member or domain.
C3_MissingKeyAbortsWhereRead ==
    AbortsAtFirst({ d \in 1..Len(json_file) : LacksRequiredWhereRead(json_file[d]) })

\* A run on two domains has failed in the first, on its second member's
\* missing name, after the line of its first member.
C3_Witness ==
    /\ pc = "failed"
    /\ error = "KeyError"
    /\ Len(json_file) = 2
    /\ dom = 1
    /\ index = 1
    /\ ~Lacks(json_file[1], "offset")
    /\ Lacks(json_file[1].members[2], "name")
    /\ Len(MemberLines) = 1

-----------------------------------------------------------------------------
(* C4: a domain whose offset is no integer makes the run fail before the   *)
(* domain gets a member line.                                              *)

\* The run fails on domain d, which gets no member line.
FailsBeforeLinesOf(d) ==
    /\ pc # "done"
    /\ pc = "failed" => error # "none"
    /\ Len(MemberLines) <= Len(MemberPlaces(json_file, d - 1))

\* C4 as it stands: a domain whose offset is no integer makes the run fail
\* before the domain gets a member line, whatever the number of its members.
C4_BadOffsetAborts ==
    \A d \in 1..Len(json_file) :
        LET domain == json_file[d]
        IN  (/\ ~Lacks(domain, "offset")
             /\ NotAnInteger(domain.offset)
             /\ ~Lacks(domain, "members")) => FailsBeforeLinesOf(d)

\* C4 as amended: a domain with at least one member whose offset is no
\* integer makes the run fail before the domain gets a member line.
C4_BadOffsetAbortsWithMember ==
    \A d \in 1..Len(json_file) :
        LET domain == json_file[d]
        IN  (/\ ~Lacks(domain, "offset")
             /\ NotAnInteger(domain.offset)
             /\ Len(MembersOf(domain)) >= 1) => FailsBeforeLinesOf(d)

\* A run has failed on the offset of its second domain, after the two lines
\* of the first.
C4_Witness ==
    /\ pc = "failed"
    /\ error = "ValueError"
    /\ dom = 2
    /\ index = 0
    /\ NotAnInteger(json_file[2].offset)
    /\ Len(json_file[2].members) = 2
    /\ Len(MemberLines) = 2

-----------------------------------------------------------------------------
(* C5: a run ends well, with both files completely written, or with an     *)
(* error; a run that fails leaves neither file completely written.         *)

\* The closing of the enumerated type: "}" and "OS_Error_t;"
ClosesEnum(w) == \E j \in 1..(Len(w) - 1) : w[j] = "}\n" /\ w[j + 1] = "OS_Error_t;\n"

\* The opening of the enumerated type: "typedef enum" and "{"
OpensEnum(w) == \E j \in 1..(Len(w) - 1) : w[j] = "typedef enum\n" /\ w[j + 1] = "{"

HeaderHasFooter == \E k \in 1..Len(Header) : ClosesEnum(Header[k])

SourceHasClosingBrace == \E k \in 1..Len(Source) : Source[k] = <<"}">>

BothComplete ==
    /\ os_error_header_file.state = "closed"
    /\ os_error_source_file.state = "closed"
    /\ Len(Header) = 2 + 3 * Len(json_file) + Len(Places)
    /\ OpensEnum(Header[1])
    /\ ClosesEnum(Header[Len(Header)])
    /\ Len(Source) = 2
    /\ Source[2] = <<"}">>

-----------------------------------------------------------------------------
(* C6: the source stub is the same fixed text for every schema: the        *)
(* include, the signature, an opening brace and a closing brace, with      *)
(* nothing between the braces.                                             *)

StubText ==
    << << "\n",
          "#include \"OS_Error.h\"\n",
          "\n",
          "const char*\n",
          "OS_Error_toString(\n",
          "    OS_Error_t err)\n",
          "{\n" >>,
       << "}" >> >>

\* C6: the source file holds a prefix of the fixed stub text, and all of it
\* after a run that ends well.
C6_StubIsFixed ==
    /\ Len(Source) <= Len(StubText)
    /\ \A k \in 1..Len(Source) : Source[k] = StubText[k]
    /\ pc = "done" => Source = StubText

\* A run has ended well on two domains that have four members in all.
C6_Witness ==
    /\ pc = "done"
    /\ Len(json_file) = 2
    /\ Len(Places) = 4
    /\ Len(Source) = 2

-----------------------------------------------------------------------------
(* C7: after a run that ends well the header opens the enumerated type     *)
(* once and closes it once, with every banner and member line in between;  *)
(* its braces are balanced; and the include guard stands once, before the  *)
(* opening.                                                                *)

RECURSIVE Flatten(_)
Flatten(writes) == IF writes = <<>> THEN <<>> ELSE Head(writes) \o Flatten(Tail(writes))

\* The places of a text where piece p is followed by piece q
PlacesOfPair(text, p, q) == { j \in 1..(Len(text) - 1) : text[j] = p /\ text[j + 1] = q }

PlacesOf(text, pieces) == { j \in 1..Len(text) : text[j] \in pieces }

OpeningBraces == { "extern \"C\" {\n", "{" }

ClosingBraces == { "}\n" }

\* By how many the opening braces of the first n pieces exceed the closing
Depth(text, n) ==
    Cardinality(PlacesOf(SubSeq(text, 1, n), OpeningBraces))
        - Cardinality(PlacesOf(SubSeq(text, 1, n), ClosingBraces))

\* C7: after a run that ends well, the header has one opening and one
\* closing of the enumerated type around all banners and member lines,
\* balanced braces, and one include guard before the opening.
C7_HeaderWellFormed ==
    pc = "done" =>
        LET text == Flatten(Header)
            opening == PlacesOfPair(text, "typedef enum\n", "{")
            closing == PlacesOfPair(text, "}\n", "OS_Error_t;\n")
            guard == PlacesOf(text, {"#pragma once\n"})
        IN  /\ Cardinality(opening) = 1
            /\ Cardinality(closing) = 1
            /\ Cardinality(guard) = 1
            /\ \A g \in guard, o \in opening, c \in closing : g < o /\ o < c
            /\ OpensEnum(Header[1])
            /\ ClosesEnum(Header[Len(Header)])
            /\ \A k \in 1..Len(Header) :
                  (IsBannerLine(Header[k]) \/ IsBannerTop(Header[k]) \/ IsMemberLine(Header[k]))
                      => 1 < k /\ k < Len(Header)
            /\ \A n \in 0..Len(text) : Depth(text, n) >= 0
            /\ Depth(text, Len(text)) = 0
            /\ Cardinality(PlacesOf(text, OpeningBraces)) = 2

\* A run has ended well on two domains, each with a banner and member lines.
C7_Witness ==
    /\ pc = "done"
    /\ Len(json_file) = 2
    /\ Len(BannerLines) = 2
    /\ Len(MemberLines) = 3

-----------------------------------------------------------------------------
(* C8: two runs on the same schema write the same to both files and end    *)
(* the same way.                                                           *)

IsPrefix(s, t) == Len(s) <= Len(t) /\ SubSeq(t, 1, Len(s)) = s

-----------------------------------------------------------------------------
(* C9: when the run has ended, well or not, no file it has opened is still *)
(* open.                                                                   *)

\* C9: in a state where the run has ended, neither file is open.
C9_NoSinkLeftOpen ==
    Ended =>
        /\ os_error_header_file.state \in {"unopened", "closed"}
        /\ os_error_source_file.state \in {"unopened", "closed"}

\* A run has failed on a write while both files were open.
C9_Witness ==
    /\ pc = "failed"
    /\ error = "OSError"
    /\ Len(Source) = 1
    /\ Len(MemberLines) = 1
    /\ os_error_header_file.state = "closed"
    /\ os_error_source_file.state = "closed"

-----------------------------------------------------------------------------
(* C10: a run goes from LOADED to EMITTING to DONE and never back; the     *)
(* schema is loaded before a file is opened; DONE comes after both files   *)
(* have their closing text and are closed.                                 *)

Iterating ==
    pc \in {"for_domain", "banner_top", "banner_description", "banner_bottom",
            "enumerate_members", "for_member"}

\* 0 before the load, 1 LOADED, 2 EMITTING and closing, 3 DONE, 4 failed
Phase ==
    CASE pc = "load" -> 0
      [] pc \in {"open_header", "header_preamble", "open_source", "source_preamble"} -> 1
      [] Iterating \/ pc \in {"source_close", "exit_source", "header_footer", "exit_header"} -> 2
      [] pc = "done" -> 3
      [] pc = "failed" -> 4

LoadedBeforeOpened ==
    (os_error_header_file # Unopened \/ os_error_source_file # Unopened) =>
        Phase >= 1 /\ os_error_codes = json_file

DoneAfterClosingText ==
    pc = "done" =>
        /\ HeaderHasFooter
        /\ SourceHasClosingBrace
        /\ os_error_header_file.state = "closed"
        /\ os_error_source_file.state = "closed"

NeverBack == Phase' >= Phase /\ (Phase' <= Phase + 1 \/ Phase' = 4)

\* The claim's lockstep: while iterating, a step appends to the header
\* exactly if it appends to the source.
Lockstep == Iterating => ((Header' # Header) <=> (Source' # Source))

\* What holds instead: while iterating, a step appends to the header at
\* most, and never to the source.
HeaderOnly == Iterating => (Source' = Source /\ IsPrefix(Header, Header'))

\* C10 as it stands: the phases follow in order, the schema is loaded before
\* a file is opened, DONE comes after the closing texts, and while iterating
\* the header and the source are appended to in lockstep.
C10_PhasesInLockstep ==
    /\ [](LoadedBeforeOpened /\ DoneAfterClosingText)
    /\ [][NeverBack /\ Lockstep]_vars

\* C10 as amended: the phases follow in order, the schema is loaded before a
\* file is opened, DONE comes after the closing texts, and while iterating
\* only the header is appended to.
C10_PhasesHeaderOnly ==
    /\ [](LoadedBeforeOpened /\ DoneAfterClosingText)
    /\ [][NeverBack /\ HeaderOnly]_vars

\* The inner loop has written a member's line, and the source holds its
\* preamble alone.
C10_Witness ==
    /\ pc = "for_member"
    /\ index = 2
    /\ Len(MemberLines) = 2
    /\ Len(Source) = 1

====
